---- MODULE Spec2Model ----
(***************************************************************************)
(* The whiteboard engine of MathBoard-AI (src/components/Whiteboard.tsx)   *)
(* together with the host state it is handed by App (src/unnamed/part_000).*)
(*                                                                         *)
(* Numbers.  JavaScript numbers are modelled as exact rationals <<n, d>>   *)
(* (d > 0, lowest terms); IEEE rounding is not modelled.                   *)
(*                                                                         *)
(* Closures.  A handler of a React function component reads the values of  *)
(* the render that created it.  `props` is that render: the host props and *)
(* the component state as the handlers currently see them.  The other      *)
(* variables hold the state after every queued update has been applied.    *)
(* Updates of a discrete event (pointerdown, pointerup, click, change) are *)
(* rendered before the next event is dispatched, so those handlers refresh *)
(* in `props` what they wrote; updates of a continuous event (pointermove, *)
(* pointerleave, wheel) are rendered by a later scheduler task, the action *)
(* Render, which may come after further events.                            *)
(***************************************************************************)
EXTENDS Integers, Sequences, FiniteSets, TLC

VARIABLES
    fileSystem,     \* App: fileSystem[id] = [parentId, type]      part_000:41
    notes,          \* App: notes[id] = [messages, paths, viewport] part_000:42
    activeNoteId,   \* App: <<id>> or <<>> (null)                  part_000:43
    isDrawing,      \* Whiteboard useState                         Whiteboard.tsx:17
    currentTool,    \* Whiteboard useState                         Whiteboard.tsx:18
    color,          \* Whiteboard useState                         Whiteboard.tsx:19
    width,          \* Whiteboard useState                         Whiteboard.tsx:20
    currentPath,    \* Whiteboard useState: <<stroke>> or <<>>     Whiteboard.tsx:21
    readOnly,       \* Whiteboard prop                             Whiteboard.tsx:15
    capturedImage,  \* App useState: <<data URI>> or <<>> (null)  part_000:48
    attachment,     \* Chat useState: <<[mimeType, data]>> or <<>> part_001:103
    isLoading,      \* Chat useState                              part_001:102
    request,        \* Chat: the sendMessageToTutor call awaited  part_001:148
    props,          \* the render the handlers close over
    now,            \* Date.now(), read when a stroke is started   Whiteboard.tsx:58
    pressed,        \* browser: pointers whose button or contact is down
    captured,       \* browser: pointers the canvas has captured  Whiteboard.tsx:53
    last,           \* the event handled last
    gesture,        \* the pointer gesture under way, as the user made it
    nView           \* number of viewport writes so far (bounds the model)

vars == <<fileSystem, notes, activeNoteId, isDrawing, currentTool, color, width,
          currentPath, readOnly, capturedImage, attachment, isLoading, request,
          props, now, pressed, captured, last, gesture, nView>>

\* what the pointer, zoom, undo, clear and tool handlers leave alone
chat == <<capturedImage, attachment, isLoading, request>>

host == <<fileSystem, activeNoteId, color, width, readOnly, chat>>

\* the state of the pointers
pointers == <<pressed, captured>>

----------------------------------------------------------------------------
(* Bounds of the model *)

MaxViewWrites == 3
MaxStrokes == 1
MaxPoints == 2
NumNotes == 2
MaxMessages == 3
CanvasWidth == 200
CanvasHeight == 100
MaxCreates == 2
MaxTreeMessages == 1
MaxCaptures == 2

----------------------------------------------------------------------------
(* Exact rational arithmetic standing in for JavaScript numbers *)

Abs(n) == IF n < 0 THEN -n ELSE n

RECURSIVE GCD(_, _)
GCD(a, b) == IF b = 0 THEN a ELSE GCD(b, a % b)

Rat(n, d) ==
    LET g == GCD(Abs(n), Abs(d))
        s == IF d < 0 THEN -1 ELSE 1
    IN  <<(s * n) \div g, (s * d) \div g>>

Num(i) == <<i, 1>>

RAdd(a, b) ==
    LET g == GCD(a[2], b[2])
    IN  Rat(a[1] * (b[2] \div g) + b[1] * (a[2] \div g), (a[2] \div g) * b[2])

RNeg(a) == <<-a[1], a[2]>>

RSub(a, b) == RAdd(a, RNeg(b))

RMul(a, b) ==
    LET g1 == GCD(Abs(a[1]), b[2])
        g2 == GCD(Abs(b[1]), a[2])
    IN  Rat((a[1] \div g1) * (b[1] \div g2), (a[2] \div g2) * (b[2] \div g1))

\* a / b, for b # 0
RDiv(a, b) == RMul(a, Rat(b[2], b[1]))

RLe(a, b) == a[1] * b[2] <= b[1] * a[2]

RLt(a, b) == a[1] * b[2] < b[1] * a[2]

MathMin(a, b) == IF RLe(a, b) THEN a ELSE b

MathMax(a, b) == IF RLe(a, b) THEN b ELSE a

MathSign(i) == IF i > 0 THEN 1 ELSE IF i < 0 THEN -1 ELSE 0

----------------------------------------------------------------------------
(* Values of the program *)

Tools == {"pen", "eraser", "highlighter", "pan", "rectangle", "circle", "line"}

FreehandTools == {"pen", "eraser", "highlighter"}

NoteIds == 1 .. NumNotes

INITIAL_NOTE_ID == 1

INITIAL_ROOT_ID == 0

\* The file tree at the start: the root folder and the notes under it
initialFileSystem ==
    [id \in {INITIAL_ROOT_ID} \cup NoteIds |->
        IF id = INITIAL_ROOT_ID
        THEN [parentId |-> <<>>, type |-> "folder"]
        ELSE [parentId |-> <<INITIAL_ROOT_ID>>, type |-> "note"]]

None == <<>>

Some(v) == <<v>>

minScale == Rat(1, 10)

maxScale == Num(5)

zoomIntensity == Rat(1, 10)

zoomOutStep == Rat(-1, 4)

zoomInStep == Rat(1, 4)

eraserWidth == 20

highlighterWidth == 15

initialViewport == [x |-> Num(0), y |-> Num(0), scale |-> Num(1)]

initialNoteContent ==
    [messages |-> <<[id |-> "1", role |-> "model", text |-> "Hello!"]>>,
     paths |-> <<>>,
     viewport |-> initialViewport]

\* canvas.getBoundingClientRect(): the canvas fills the element the wheel
\* handler is bound to, so both handlers see the same rectangle.
rect == [left |-> 0, top |-> 0]

\* canvas.width, canvas.height as set by the render effect from the parent.
canvas == [width |-> CanvasWidth, height |-> CanvasHeight]

\* canvasRef.current: set from the mount on, so in every state a handler runs in
canvasRef == Some(canvas)

----------------------------------------------------------------------------
(* Events delivered by the browser *)

PointerIds == {"mouse", "touch"}

\* pointer-down events
DownEvents(ids) ==
    {[pointerId |-> id, clientX |-> p[1], clientY |-> p[2]] :
        id \in ids, p \in {<<0, 0>>, <<10, 10>>}}

\* pointer-move events: position, and movement since the previous event
MoveEvents(ids) ==
    {[pointerId |-> id, clientX |-> m[1], clientY |-> m[2],
      movementX |-> m[3], movementY |-> m[4]] :
        id \in ids, m \in {<<10, 0, 10, 0>>, <<10, 10, 0, 10>>, <<0, 0, -5, 5>>}}

\* e.buttons: 1 while the primary button of the pointer is held
buttons(e) == IF e.pointerId \in pressed THEN 1 ELSE 0

WheelEvents == [clientX : {100, 10}, clientY : {50}, deltaY : {-100, 0, 100}]

\* e.target.value of the range input (min 0.1, max 5, step 0.1): the browser
\* keeps the value of a range input within min and max.
SliderValues == {"0.1", "0.5", "2", "5"}

\* values a caller of the handler could pass besides
RawSliderValues == SliderValues \cup {"0.05", "7"}

parseFloat(str) ==
    CASE str = "0.05" -> Rat(1, 20)
      [] str = "0.1" -> Rat(1, 10)
      [] str = "0.5" -> Rat(1, 2)
      [] str = "2" -> Num(2)
      [] str = "5" -> Num(5)
      [] str = "7" -> Num(7)
      [] str = "-1" -> Num(-1)

\* The event handled last: the handler, what the event carried, and for the
\* zoom handlers the viewport of the render the handler ran in.
Ev(op, e) ==
    [op |-> op,
     e |-> e @@ [clientX |-> 0, clientY |-> 0, deltaY |-> 0, value |-> ""],
     pre |-> initialViewport]

ZoomEv(op, e) == [Ev(op, e) EXCEPT !.pre = props.viewport]

----------------------------------------------------------------------------
(* The host: App's note contents and the setters it hands down *)

\* const activeNote = activeNoteId ? notes[activeNoteId] : null
activeNote(ns, aid) == ns[aid[1]]

\* updateActiveNotePaths, as created by the render the handlers close over
\* ({...prev, [id]: {...prev[id], paths}}: without an entry for id, prev[id]
\* is undefined, its spread is empty and the entry made holds paths alone)
updateActiveNotePaths(paths) ==
    IF props.activeNoteId = None THEN notes
    ELSE IF props.activeNoteId[1] \in DOMAIN notes
    THEN [notes EXCEPT ![props.activeNoteId[1]].paths = paths]
    ELSE (props.activeNoteId[1] :> [paths |-> paths]) @@ notes

\* a viewport setter that replaces the whole note content
updateActiveNoteViewportOnly(viewport) ==
    IF props.activeNoteId = None THEN notes
    ELSE [notes EXCEPT ![props.activeNoteId[1]] =
                         [messages |-> <<>>, paths |-> <<>>, viewport |-> viewport]]

\* updateActiveNoteViewport, as created by the render the handlers close over
updateActiveNoteViewport(viewport) ==
    IF props.activeNoteId = None THEN notes
    ELSE IF props.activeNoteId[1] \in DOMAIN notes
    THEN [notes EXCEPT ![props.activeNoteId[1]].viewport = viewport]
    ELSE (props.activeNoteId[1] :> [viewport |-> viewport]) @@ notes

\* updateActiveNoteMessages, as created by a render with activeNoteId = aid
updateActiveNoteMessages(aid, messages) ==
    IF aid = None THEN notes
    ELSE IF aid[1] \in DOMAIN notes
    THEN [notes EXCEPT ![aid[1]].messages = messages]
    ELSE (aid[1] :> [messages |-> messages]) @@ notes

\* What a render of App and Whiteboard hands the handlers.
RenderOf(ns, aid, drawing, path, tool, col, wid) ==
    [activeNoteId |-> aid,
     paths |-> activeNote(ns, aid).paths,
     viewport |-> activeNote(ns, aid).viewport,
     isDrawing |-> drawing,
     currentPath |-> path,
     currentTool |-> tool,
     color |-> col,
     width |-> wid]

----------------------------------------------------------------------------
(* Coordinate transform *)

\* (p - viewport.x) / viewport.scale on each axis
screenToLogical(px, py, viewport) ==
    [x |-> RDiv(RSub(px, viewport.x), viewport.scale),
     y |-> RDiv(RSub(py, viewport.y), viewport.scale)]

getCanvasPoint(e) ==
    screenToLogical(Num(e.clientX - rect.left), Num(e.clientY - rect.top),
                    props.viewport)

\* The transformation matrix of the 2D context, [a 0 e; 0 d f; 0 0 1]; the
\* canvas is resized at the head of each repaint, which resets it to identity.
identityTransform == [a |-> Num(1), d |-> Num(1), e |-> Num(0), f |-> Num(0)]

\* ctx.translate(tx, ty): the matrix is multiplied by a translation on the right
ctxTranslate(m, tx, ty) ==
    [m EXCEPT !.e = RAdd(RMul(m.a, tx), m.e), !.f = RAdd(RMul(m.d, ty), m.f)]

\* ctx.scale(sx, sy): the matrix is multiplied by a scaling on the right
ctxScale(m, sx, sy) == [m EXCEPT !.a = RMul(m.a, sx), !.d = RMul(m.d, sy)]

\* where the context puts a point of a path
ctxApply(m, point) ==
    [x |-> RAdd(RMul(m.a, point.x), m.e), y |-> RAdd(RMul(m.d, point.y), m.f)]

\* a repaint that scales before it translates
renderTransformScaleFirst(viewport) ==
    ctxTranslate(ctxScale(identityTransform, viewport.scale, viewport.scale),
                 viewport.x, viewport.y)

\* ctx.translate(viewport.x, viewport.y); ctx.scale(viewport.scale, viewport.scale)
renderTransform(viewport) ==
    ctxScale(ctxTranslate(identityTransform, viewport.x, viewport.y),
             viewport.scale, viewport.scale)

\* the pixel a logical point is painted at
logicalToScreen(point, viewport) == ctxApply(renderTransform(viewport), point)

----------------------------------------------------------------------------
(* Repaint *)

ShapeTools == {"rectangle", "circle", "line"}

\* The 2D context during a repaint: its composite mode and, in paint order,
\* the strokes painted with the mode each was painted in.
freshContext == [globalCompositeOperation |-> "source-over", painted |-> <<>>]

\* ctx.stroke(), ctx.strokeRect(): the path is painted in the mode in force
ctxStroke(ctx, path) ==
    [ctx EXCEPT !.painted =
        Append(@, [id |-> path.id, tool |-> path.tool,
                   mode |-> ctx.globalCompositeOperation])]

\* a drawPath that leaves the mode of a freehand stroke in force
drawPathKeepsMode(ctx, path) ==
    IF Len(path.points) < 1 THEN ctx
    ELSE IF path.tool \in FreehandTools
    THEN ctxStroke([ctx EXCEPT !.globalCompositeOperation =
                        IF path.tool = "eraser" THEN "destination-out"
                        ELSE "source-over"], path)
    ELSE IF path.tool \in ShapeTools THEN ctxStroke(ctx, path)
    ELSE ctx

drawPath(ctx, path) ==
    IF Len(path.points) < 1 THEN ctx
    ELSE IF path.tool \in FreehandTools
    THEN [ctxStroke([ctx EXCEPT !.globalCompositeOperation =
                         IF path.tool = "eraser" THEN "destination-out"
                         ELSE "source-over"], path)
            EXCEPT !.globalCompositeOperation = "source-over"]
    ELSE IF path.tool \in ShapeTools THEN ctxStroke(ctx, path)
    ELSE ctx

\* array.forEach(path => { if (!path) return; drawPath(ctx, path); }), from
\* index i on; the entries are <<stroke>> or <<>> (null)
RECURSIVE forEachDrawPath(_, _, _)
forEachDrawPath(array, i, ctx) ==
    IF i > Len(array) THEN ctx
    ELSE forEachDrawPath(array, i + 1,
                         IF array[i] = None THEN ctx ELSE drawPath(ctx, array[i][1]))

\* a repaint that paints the stroke in progress first
repaintCurrentFirst(paths, path) ==
    forEachDrawPath(<<path>> \o [i \in 1 .. Len(paths) |-> Some(paths[i])],
                    1, freshContext)

\* the render effect: [...paths, currentPath].forEach(...)
repaint(paths, path) ==
    forEachDrawPath([i \in 1 .. Len(paths) |-> Some(paths[i])] \o <<path>>,
                    1, freshContext)

\* NaN, where a JavaScript number can be one
NaN == <<>>

\* a % b of JavaScript: a - b * trunc(a / b), NaN for b = 0
jsRemainder(a, b) ==
    IF b[1] = 0 THEN NaN
    ELSE LET q == RDiv(a, b)
             t == IF q[1] >= 0 THEN q[1] \div q[2] ELSE -((-q[1]) \div q[2])
         IN  RSub(a, RMul(b, Num(t)))

\* for (let x = start; x < limit; x += step) { moveTo; lineTo }: the number of
\* lines laid out, or -1 if the loop never ends (x < limit and x does not grow)
RECURSIVE gridLoop(_, _, _)
gridLoop(x, limit, step) ==
    IF x = NaN THEN 0
    ELSE IF ~RLt(x, limit) THEN 0
    ELSE IF ~RLt(Num(0), step) THEN -1
    ELSE 1 + gridLoop(RAdd(x, step), limit, step)

\* drawGrid: the cell size and the lines of the two loops
drawGrid(w, h, vp) ==
    LET gridSize == RMul(Num(40), vp.scale)
        offsetX == jsRemainder(vp.x, gridSize)
        offsetY == jsRemainder(vp.y, gridSize)
    IN  [gridSize |-> gridSize,
         vertical |-> gridLoop(offsetX, Num(w), gridSize),
         horizontal |-> gridLoop(offsetY, Num(h), gridSize)]

----------------------------------------------------------------------------
(* Zoom *)

\* a wheel step with the direction of deltaY instead of its opposite
wheelNewScaleSameSign(viewport, e) ==
    LET direction == MathSign(e.deltaY)
        delta == RMul(Num(direction), zoomIntensity)
    IN  MathMin(MathMax(minScale, RMul(viewport.scale, RAdd(Num(1), delta))),
                maxScale)

wheelNewScale(viewport, e) ==
    LET direction == -MathSign(e.deltaY)
        delta == RMul(Num(direction), zoomIntensity)
    IN  MathMin(MathMax(minScale, RMul(viewport.scale, RAdd(Num(1), delta))),
                maxScale)

\* a wheel zoom that keeps the offset of the viewport
handleWheelViewportKeepOffset(viewport, e) ==
    [viewport EXCEPT !.scale = wheelNewScale(viewport, e)]

handleWheelViewport(viewport, e) ==
    LET newScale == wheelNewScale(viewport, e)
        mouseX == Num(e.clientX - rect.left)
        mouseY == Num(e.clientY - rect.top)
        worldX == RDiv(RSub(mouseX, viewport.x), viewport.scale)
        worldY == RDiv(RSub(mouseY, viewport.y), viewport.scale)
        newX == RSub(mouseX, RMul(worldX, newScale))
        newY == RSub(mouseY, RMul(worldY, newScale))
    IN  [x |-> newX, y |-> newY, scale |-> newScale]

\* a button step that is not clamped
manualZoomNewScaleUnclamped(viewport, delta) == RAdd(viewport.scale, delta)

manualZoomNewScale(viewport, delta) ==
    MathMin(MathMax(minScale, RAdd(viewport.scale, delta)), maxScale)

manualZoomViewport(viewport, delta) ==
    LET newScale == manualZoomNewScale(viewport, delta)
        centerX == Rat(canvasRef[1].width, 2)
        centerY == Rat(canvasRef[1].height, 2)
        worldX == RDiv(RSub(centerX, viewport.x), viewport.scale)
        worldY == RDiv(RSub(centerY, viewport.y), viewport.scale)
        newX == RSub(centerX, RMul(worldX, newScale))
        newY == RSub(centerY, RMul(worldY, newScale))
    IN  IF canvasRef # None
        THEN [x |-> newX, y |-> newY, scale |-> newScale]
        ELSE [viewport EXCEPT !.scale = newScale]

sliderNewScale(value) == parseFloat(value)

\* a slider zoom that keeps the offset of the viewport
handleSliderZoomViewportKeepOffset(viewport, value) ==
    [viewport EXCEPT !.scale = sliderNewScale(value)]

handleSliderZoomViewport(viewport, value) ==
    LET newScale == sliderNewScale(value)
        centerX == Rat(canvasRef[1].width, 2)
        centerY == Rat(canvasRef[1].height, 2)
        worldX == RDiv(RSub(centerX, viewport.x), viewport.scale)
        worldY == RDiv(RSub(centerY, viewport.y), viewport.scale)
        newX == RSub(centerX, RMul(worldX, newScale))
        newY == RSub(centerY, RMul(worldY, newScale))
    IN  IF canvasRef # None
        THEN [x |-> newX, y |-> newY, scale |-> newScale]
        ELSE [viewport EXCEPT !.scale = newScale]

\* onWheel (continuous event: rendered later)
handleWheel(e) ==
    /\ nView < MaxViewWrites
    /\ notes' = updateActiveNoteViewport(handleWheelViewport(props.viewport, e))
    /\ nView' = nView + 1
    /\ last' = ZoomEv("wheel", e)
    /\ gesture' = None
    /\ UNCHANGED <<host, pointers, isDrawing, currentTool, currentPath, props, now>>

\* onClick of the zoom buttons (discrete event: rendered at once)
manualZoom(delta) ==
    /\ nView < MaxViewWrites
    /\ notes' = updateActiveNoteViewport(manualZoomViewport(props.viewport, delta))
    /\ props' = [props EXCEPT !.viewport = activeNote(notes', activeNoteId).viewport]
    /\ nView' = nView + 1
    /\ last' = ZoomEv("manualZoom", [value |-> IF delta = zoomInStep THEN "+" ELSE "-"])
    /\ gesture' = None
    /\ UNCHANGED <<host, pointers, isDrawing, currentTool, currentPath, now>>

\* onChange of the zoom slider (discrete event: rendered at once)
handleSliderZoom(value) ==
    /\ nView < MaxViewWrites
    /\ notes' = updateActiveNoteViewport(handleSliderZoomViewport(props.viewport, value))
    /\ props' = [props EXCEPT !.viewport = activeNote(notes', activeNoteId).viewport]
    /\ nView' = nView + 1
    /\ last' = ZoomEv("slider", [value |-> value])
    /\ gesture' = None
    /\ UNCHANGED <<host, pointers, isDrawing, currentTool, currentPath, now>>

----------------------------------------------------------------------------
(* Stroke log *)

\* a copy without its first element
popFirst(paths) == [i \in 1 .. (Len(paths) - 1) |-> paths[i + 1]]

\* a copy of all elements
popNothing(paths) == paths

\* newPaths = [...paths]; newPaths.pop(): the copy without its last element
pop(paths) == [i \in 1 .. (Len(paths) - 1) |-> paths[i]]

\* an undo that also ends the stroke in progress
handleUndoEndsStroke ==
    /\ IF Len(props.paths) > 0
       THEN /\ notes' = updateActiveNotePaths(pop(props.paths))
            /\ props' = [props EXCEPT !.paths = activeNote(notes', activeNoteId).paths,
                                      !.isDrawing = FALSE, !.currentPath = None]
       ELSE /\ props' = [props EXCEPT !.isDrawing = FALSE, !.currentPath = None]
            /\ UNCHANGED notes
    /\ isDrawing' = FALSE
    /\ currentPath' = None
    /\ last' = Ev("undo", [value |-> ""])
    /\ gesture' = None
    /\ UNCHANGED <<host, pointers, currentTool, now, nView>>

\* onClick of the undo button (discrete)
handleUndo ==
    /\ IF Len(props.paths) > 0
       THEN /\ notes' = updateActiveNotePaths(pop(props.paths))
            /\ props' = [props EXCEPT !.paths = activeNote(notes', activeNoteId).paths]
       ELSE UNCHANGED <<notes, props>>
    /\ last' = Ev("undo", [value |-> ""])
    /\ gesture' = None
    /\ UNCHANGED <<host, pointers, isDrawing, currentTool, currentPath, now, nView>>

\* a clear that does not wait for the answer
handleClearUnasked(confirmed) ==
    /\ notes' = updateActiveNotePaths(<<>>)
    /\ props' = [props EXCEPT !.paths = activeNote(notes', activeNoteId).paths]
    /\ last' = Ev("clear", [value |-> IF confirmed THEN "ok" ELSE "cancel"])
    /\ gesture' = None
    /\ UNCHANGED <<host, pointers, isDrawing, currentTool, currentPath, now, nView>>

\* onClick of the clear button (discrete); confirmed is window.confirm's answer
handleClear(confirmed) ==
    /\ IF confirmed
       THEN /\ notes' = updateActiveNotePaths(<<>>)
            /\ props' = [props EXCEPT !.paths = activeNote(notes', activeNoteId).paths]
       ELSE UNCHANGED <<notes, props>>
    /\ last' = Ev("clear", [value |-> IF confirmed THEN "ok" ELSE "cancel"])
    /\ gesture' = None
    /\ UNCHANGED <<host, pointers, isDrawing, currentTool, currentPath, now, nView>>

----------------------------------------------------------------------------
(* Pointer input *)

\* a seed that takes the configured color and width for every tool
newPathConfigured(e) ==
    [id |-> ToString(now),
     points |-> <<getCanvasPoint(e)>>,
     color |-> props.color,
     width |-> props.width,
     tool |-> props.currentTool]

\* the stroke startDrawing seeds
newPath(e) ==
    [id |-> ToString(now),
     points |-> <<getCanvasPoint(e)>>,
     color |-> IF props.currentTool = "eraser" THEN "#ffffff"
               ELSE IF props.currentTool = "highlighter" THEN props.color \o "50"
               ELSE props.color,
     width |-> IF props.currentTool = "eraser" THEN eraserWidth
               ELSE IF props.currentTool = "highlighter" THEN highlighterWidth
               ELSE props.width,
     tool |-> props.currentTool]

\* a pointer-down handler that does not look at readOnly
startDrawingWithinWritable(e, maxStrokes) ==
    /\ e.pointerId \notin pressed
    /\ pressed' = pressed \cup {e.pointerId}
    /\ IF props.currentTool = "pan"
       THEN /\ UNCHANGED <<isDrawing, currentPath, props, now, captured>>
            /\ gesture' = None
       ELSE /\ now < maxStrokes
            /\ captured' = captured \cup {e.pointerId}
            /\ isDrawing' = TRUE
            /\ currentPath' = Some(newPath(e))
            /\ now' = now + 1
            /\ props' = [props EXCEPT !.isDrawing = TRUE, !.currentPath = currentPath']
            /\ gesture' = Some([note |-> activeNoteId[1],
                                id |-> ToString(now),
                                committedBy |-> {},
                                pointerId |-> e.pointerId,
                                points |-> <<getCanvasPoint(e)>>,
                                tool |-> props.currentTool,
                                log |-> activeNote(notes, activeNoteId).paths,
                                open |-> TRUE])
    /\ last' = Ev("down", [value |-> ""])
    /\ UNCHANGED <<host, notes, currentTool, nView>>

\* onPointerDown (discrete); at most maxStrokes strokes are started
startDrawingWithin(e, maxStrokes) ==
    /\ e.pointerId \notin pressed
    /\ pressed' = pressed \cup {e.pointerId}
    /\ IF readOnly \/ props.currentTool = "pan"
       THEN /\ UNCHANGED <<isDrawing, currentPath, props, now, captured>>
            /\ gesture' = None
       ELSE /\ now < maxStrokes
            /\ captured' = captured \cup {e.pointerId}
            /\ isDrawing' = TRUE
            /\ currentPath' = Some(newPath(e))
            /\ now' = now + 1
            /\ props' = [props EXCEPT !.isDrawing = TRUE, !.currentPath = currentPath']
            /\ gesture' = Some([note |-> activeNoteId[1],
                                id |-> ToString(now),
                                committedBy |-> {},
                                pointerId |-> e.pointerId,
                                points |-> <<getCanvasPoint(e)>>,
                                tool |-> props.currentTool,
                                log |-> activeNote(notes, activeNoteId).paths,
                                open |-> TRUE])
    /\ last' = Ev("down", [value |-> ""])
    /\ UNCHANGED <<host, notes, currentTool, nView>>

startDrawing(e) == startDrawingWithin(e, MaxStrokes)

\* the updater draw passes to setCurrentPath, applied to the queued state
extendPath(prev, point) ==
    IF props.currentTool \in FreehandTools
    THEN IF prev # None
         THEN Some([prev[1] EXCEPT !.points = Append(@, point)])
         ELSE None
    ELSE IF prev = None
         THEN None
         ELSE Some([prev[1] EXCEPT !.points = <<@[1], point>>])

\* the viewport draw writes when panning
panViewport(viewport, e) ==
    [viewport EXCEPT !.x = RAdd(@, Num(e.movementX)),
                     !.y = RAdd(@, Num(e.movementY))]

\* the gesture under way gains the point the user moved to
MoveGesture(e, maxPoints) ==
    IF gesture # None /\ gesture[1].open /\ gesture[1].pointerId = e.pointerId
    THEN /\ Len(gesture[1].points) < maxPoints
         /\ gesture' = Some([gesture[1] EXCEPT !.points = Append(@, getCanvasPoint(e))])
    ELSE UNCHANGED gesture

\* onPointerMove (continuous); no stroke is given more than maxPoints points
drawWithin(e, maxPoints) ==
    /\ IF ~props.isDrawing \/ props.currentPath = None
       THEN /\ IF props.currentTool = "pan" /\ buttons(e) = 1
               THEN /\ nView < MaxViewWrites
                    /\ notes' = updateActiveNoteViewport(panViewport(props.viewport, e))
                    /\ nView' = nView + 1
               ELSE UNCHANGED <<notes, nView>>
            /\ UNCHANGED currentPath
       ELSE /\ IF currentPath = None THEN TRUE
               ELSE Len(currentPath[1].points) < maxPoints
            /\ currentPath' = extendPath(currentPath, getCanvasPoint(e))
            /\ UNCHANGED <<notes, nView>>
    /\ MoveGesture(e, maxPoints)
    /\ last' = Ev("move", e)
    /\ UNCHANGED <<host, pointers, isDrawing, currentTool, props, now>>

draw(e) == drawWithin(e, MaxPoints)

\* The gesture under way ends with the pointer-up or pointer-leave of its
\* pointer: down, moves and this event, with nothing but renders in between.
EndGesture(id) ==
    IF gesture # None /\ gesture[1].pointerId = id
    THEN IF gesture[1].open THEN Some([gesture[1] EXCEPT !.open = FALSE]) ELSE None
    ELSE gesture

\* The gesture after the event op, a pointer-up or pointer-leave of pointer
\* id: ended if id is its pointer, and committed by op if stopDrawing wrote
\* the log.
StopGesture(id, op) ==
    LET g == EndGesture(id)
    IN  IF g # None /\ props.isDrawing /\ props.currentPath # None
        THEN Some([g[1] EXCEPT !.committedBy = @ \cup {op}])
        ELSE g

\* a stopDrawing that appends the stroke to the log as it is by now
stopDrawingAppends ==
    IF ~props.isDrawing
    THEN UNCHANGED <<notes, isDrawing, currentPath>>
    ELSE /\ isDrawing' = FALSE
         /\ IF props.currentPath # None
            THEN /\ notes' = updateActiveNotePaths(
                                Append(activeNote(notes, props.activeNoteId).paths,
                                       props.currentPath[1]))
                 /\ currentPath' = None
            ELSE UNCHANGED <<notes, currentPath>>

\* a stopDrawing that commits the stroke and does not clear it
stopDrawingKeepsPath ==
    IF ~props.isDrawing
    THEN UNCHANGED <<notes, isDrawing, currentPath>>
    ELSE /\ isDrawing' = FALSE
         /\ IF props.currentPath # None
            THEN /\ notes' = updateActiveNotePaths(Append(props.paths, props.currentPath[1]))
                 /\ UNCHANGED currentPath
            ELSE UNCHANGED <<notes, currentPath>>

\* stopDrawing's writes, from the render the handler closes over
stopDrawing ==
    IF ~props.isDrawing
    THEN UNCHANGED <<notes, isDrawing, currentPath>>
    ELSE /\ isDrawing' = FALSE
         /\ IF props.currentPath # None
            THEN /\ notes' = updateActiveNotePaths(Append(props.paths, props.currentPath[1]))
                 /\ currentPath' = None
            ELSE UNCHANGED <<notes, currentPath>>

\* onPointerUp (discrete); the browser releases the capture of the pointer
pointerUp(id) ==
    /\ id \in pressed
    /\ pressed' = pressed \ {id}
    /\ captured' = captured \ {id}
    /\ stopDrawing
    /\ props' = IF ~props.isDrawing THEN props
                ELSE IF props.currentPath = None
                THEN [props EXCEPT !.isDrawing = isDrawing']
                ELSE [props EXCEPT !.isDrawing = isDrawing',
                                   !.currentPath = currentPath',
                                   !.paths = activeNote(notes', activeNoteId).paths]
    /\ last' = Ev("up", [value |-> ""])
    /\ gesture' = StopGesture(id, "up")
    /\ UNCHANGED <<host, currentTool, now, nView>>

\* onPointerLeave (continuous); a captured pointer does not leave the canvas
pointerLeave(id) ==
    /\ id \notin captured
    /\ stopDrawing
    /\ last' = Ev("leave", [value |-> ""])
    /\ gesture' = StopGesture(id, "leave")
    /\ UNCHANGED <<host, pointers, currentTool, now, nView, props>>

\* onClick of a tool button (discrete)
selectTool(tool) ==
    /\ currentTool' = tool
    /\ props' = [props EXCEPT !.currentTool = tool]
    /\ last' = Ev("tool", [value |-> tool])
    /\ gesture' = None
    /\ UNCHANGED <<host, pointers, notes, isDrawing, currentPath, now, nView>>

\* e.target.value of the colour input
Colors == {"#ff0000"}

\* Number(e.target.value) of the brush size input (min 1, max 20)
Widths == {5}

\* onChange of the colour input (discrete)
setColor(value) ==
    /\ color' = value
    /\ props' = [props EXCEPT !.color = value]
    /\ last' = Ev("color", [value |-> value])
    /\ gesture' = None
    /\ UNCHANGED <<fileSystem, activeNoteId, readOnly, chat, width, pointers, notes, isDrawing,
                   currentTool, currentPath, now, nView>>

\* onChange of the brush size input (discrete)
setWidth(value) ==
    /\ width' = value
    /\ props' = [props EXCEPT !.width = value]
    /\ last' = Ev("width", [value |-> ToString(value)])
    /\ gesture' = None
    /\ UNCHANGED <<fileSystem, activeNoteId, readOnly, chat, color, pointers, notes, isDrawing,
                   currentTool, currentPath, now, nView>>

\* a note switch after which the handlers of the render before are still called
selectNoteKeepsHandlers(id) ==
    /\ activeNoteId # Some(id)
    /\ activeNoteId' = Some(id)
    /\ last' = Ev("select", [value |-> ToString(id)])
    /\ UNCHANGED <<fileSystem, color, width, readOnly, chat, pointers, notes,
                   isDrawing, currentTool, currentPath, now, gesture, nView, props>>

\* onSelectNote={setActiveNoteId}: a click on a note of the sidebar (discrete).
\* App renders with the content of the note selected; Whiteboard has no key
\* and stays mounted, so its own state is carried over.
selectNote(id) ==
    /\ activeNoteId # Some(id)
    /\ activeNoteId' = Some(id)
    /\ props' = [props EXCEPT !.activeNoteId = Some(id),
                              !.paths = notes[id].paths,
                              !.viewport = notes[id].viewport]
    /\ last' = Ev("select", [value |-> ToString(id)])
    /\ UNCHANGED <<fileSystem, color, width, readOnly, chat, pointers, notes,
                   isDrawing, currentTool, currentPath, now, gesture, nView>>

\* what the user has typed into the input of the chat
Inputs == {"", "2+2?"}

\* what sendMessageToTutor resolves to: the answer, or the text of an error
Answers == {"4", "Error: API Key not configured."}

\* handleSend up to the await (a click or the Enter key, discrete): the user
\* message is added to the transcript the render was given and the request
\* goes out; what is left of the function waits with the values it closed over.
\* attachments: attachment ? [attachment] : undefined, kept as <<attachment>>
\* or <<>>; the attachment of the chat is cleared before the request goes out.
handleSend(input) ==
    /\ Len(activeNote(notes, props.activeNoteId).messages) < MaxMessages
    /\ IF (input = "" /\ attachment = None) \/ isLoading
       THEN UNCHANGED <<notes, attachment, isLoading, request>>
       ELSE LET userMsg == [id |-> ToString(now), role |-> "user", text |-> input,
                            attachments |-> attachment]
                updatedMessages ==
                    Append(activeNote(notes, props.activeNoteId).messages, userMsg)
            IN  /\ notes' = updateActiveNoteMessages(props.activeNoteId, updatedMessages)
                /\ attachment' = None
                /\ isLoading' = TRUE
                /\ request' = Some([activeNoteId |-> props.activeNoteId,
                                    updatedMessages |-> updatedMessages])
    /\ last' = Ev("send", [value |-> input])
    /\ UNCHANGED <<fileSystem, activeNoteId, color, width, readOnly, capturedImage, pointers,
                   isDrawing, currentTool, currentPath, props, now, gesture, nView>>

\* a continuation that takes the setter of the render current at reply time
handleSendResumedInActiveNote(aiResponseText) ==
    /\ request # None
    /\ LET aiMsg == [id |-> ToString(now + 1), role |-> "model",
                     text |-> aiResponseText]
       IN  notes' = updateActiveNoteMessages(
                        props.activeNoteId,
                        Append(request[1].updatedMessages, aiMsg))
    /\ isLoading' = FALSE
    /\ request' = None
    /\ last' = Ev("reply", [value |-> aiResponseText])
    /\ UNCHANGED <<fileSystem, activeNoteId, color, width, readOnly, capturedImage,
                   attachment, pointers, isDrawing, currentTool, currentPath, props,
                   now, gesture, nView>>

\* handleSend after the await: the promise has resolved, the reply is added
\* to the messages the function sent, through the setter it closed over
handleSendResumed(aiResponseText) ==
    /\ request # None
    /\ LET aiMsg == [id |-> ToString(now + 1), role |-> "model",
                     text |-> aiResponseText]
       IN  notes' = updateActiveNoteMessages(
                        request[1].activeNoteId,
                        Append(request[1].updatedMessages, aiMsg))
    /\ isLoading' = FALSE
    /\ request' = None
    /\ last' = Ev("reply", [value |-> aiResponseText])
    /\ UNCHANGED <<fileSystem, activeNoteId, color, width, readOnly, capturedImage,
                   attachment, pointers, isDrawing, currentTool, currentPath, props,
                   now, gesture, nView>>

\* A data URI, data:<mimeType>;base64,<payload>, as the pieces of the string
\* with the comma as a piece of its own
dataUrl(mimeType, payload) == <<"data:" \o mimeType \o ";base64", ",", payload>>

RECURSIVE split(_, _, _)
\* String.prototype.split: the pieces of string between the separators, taken
\* from piece i on
split(string, separator, i) ==
    IF i > Len(string) THEN <<"">>
    ELSE LET rest == split(string, separator, i + 1)
         IN  IF string[i] = separator THEN <<"">> \o rest
             ELSE <<string[i] \o rest[1]>> \o Tail(rest)

\* App's capture callback, handed to Whiteboard as the onCapture prop and called
\* with the data URI of an image of the canvas (a command of the user, discrete)
handleWhiteboardCapture(imageDataUrl) ==
    /\ capturedImage' = Some(imageDataUrl)
    /\ last' = Ev("onCapture", [value |-> imageDataUrl[3]])
    /\ UNCHANGED <<fileSystem, notes, activeNoteId, color, width, readOnly,
                   attachment, isLoading, request, pointers, isDrawing, currentTool,
                   currentPath, props, now, gesture, nView>>

\* an effect that attaches the image and leaves it pending
pendingAttachmentEffectKeepsPending ==
    /\ capturedImage # None
    /\ LET base64Data == split(capturedImage[1], ",", 1)[2]
       IN  attachment' = Some([mimeType |-> "image/png", data |-> base64Data])
    /\ last' = Ev("effect", [value |-> ""])
    /\ UNCHANGED <<fileSystem, notes, activeNoteId, color, width, readOnly,
                   capturedImage, isLoading, request, pointers, isDrawing,
                   currentTool, currentPath, props, now, gesture, nView>>

\* Chat's effect on pendingAttachment, run after the render that hands it a
\* pending image: the payload after the comma becomes the attachment, as
\* image/png, and onClearPendingAttachment sets capturedImage back to null
pendingAttachmentEffect ==
    /\ capturedImage # None
    /\ LET base64Data == split(capturedImage[1], ",", 1)[2]
       IN  attachment' = Some([mimeType |-> "image/png", data |-> base64Data])
    /\ capturedImage' = None
    /\ last' = Ev("effect", [value |-> ""])
    /\ UNCHANGED <<fileSystem, notes, activeNoteId, color, width, readOnly,
                   isLoading, request, pointers, isDrawing, currentTool,
                   currentPath, props, now, gesture, nView>>

\* A request to capture the canvas reaches Whiteboard.  The component takes
\* paths, setPaths, viewport, setViewport and readOnly from its props and drops
\* onCapture; none of its handlers reads the canvas pixels or calls the host.
capture ==
    /\ last' = Ev("capture", [value |-> ""])
    /\ UNCHANGED <<host, pointers, notes, isDrawing, currentTool, currentPath,
                   props, now, gesture, nView>>

\* Date.now().toString() at tick t as the id of a new node; the ids before
\* it belong to the root folder and the notes that exist at the start
newNodeId(t) == NumNotes + 1 + t

\* {activeNote && <Chat/>}, {activeNote && <Whiteboard/>}: the two panes are
\* mounted when the active id is set and has a content entry
mounted(ns, aid) == aid # None /\ aid[1] \in DOMAIN ns

\* What Chat and Whiteboard start from when they are mounted again: while the
\* panes are unmounted the component state holds the values of the next mount.
Unmount ==
    /\ attachment' = None
    /\ isLoading' = FALSE
    /\ isDrawing' = FALSE
    /\ currentTool' = "pen"
    /\ color' = "#000000"
    /\ width' = 2
    /\ currentPath' = None
    /\ props' = [props EXCEPT !.activeNoteId = activeNoteId',
                              !.isDrawing = FALSE,
                              !.currentPath = None,
                              !.currentTool = "pen",
                              !.color = "#000000",
                              !.width = 2]

\* handleCreateNode (a click in the sidebar, discrete): the node is added under
\* parentId or the root; a note gets an empty content and becomes active
handleCreateNode(type, parentId) ==
    /\ now < MaxCreates
    /\ LET pid == IF parentId = None THEN INITIAL_ROOT_ID ELSE parentId[1]
           id == newNodeId(now)
       IN  /\ fileSystem' = (id :> [parentId |-> Some(pid), type |-> type]) @@ fileSystem
           /\ IF type = "note"
              THEN /\ notes' = (id :> [messages |-> <<>>, paths |-> <<>>,
                                       viewport |-> initialViewport]) @@ notes
                   /\ activeNoteId' = Some(id)
                   /\ props' = [props EXCEPT !.activeNoteId = Some(id),
                                             !.paths = <<>>,
                                             !.viewport = initialViewport]
              ELSE UNCHANGED <<notes, activeNoteId, props>>
           /\ last' = Ev("create", [value |-> ToString(id)])
    /\ now' = now + 1
    /\ UNCHANGED <<color, width, readOnly, chat, pointers, isDrawing, currentTool,
                   currentPath, gesture, nView>>

RECURSIVE deleteRecursive(_, _)
\* the nodes deleteRecursive(nodeId) deletes from the copy fs of the tree: the
\* node and, before it, whatever is reached from it through parentId
deleteRecursive(fs, nodeId) ==
    {nodeId} \cup UNION {deleteRecursive(fs, n) :
                            n \in {c \in DOMAIN fs : fs[c].parentId = Some(nodeId)}}

\* handleDeleteNode (a click in the sidebar, discrete; confirmed is what
\* confirm() returns): the node and all below it leave the tree and the note
\* contents in one write each, and the active id is reset if it equals id
handleDeleteNode(id, confirmed) ==
    /\ IF id = INITIAL_ROOT_ID \/ id \notin DOMAIN fileSystem \/ ~confirmed
       THEN UNCHANGED <<fileSystem, notes, activeNoteId, attachment, isLoading,
                        isDrawing, currentTool, color, width, currentPath, props>>
       ELSE LET removed == deleteRecursive(fileSystem, id)
            IN  /\ fileSystem' = [n \in DOMAIN fileSystem \ removed |-> fileSystem[n]]
                /\ notes' = [n \in DOMAIN notes \ removed |-> notes[n]]
                /\ activeNoteId' = IF activeNoteId = Some(id) THEN None ELSE activeNoteId
                /\ IF mounted(notes', activeNoteId')
                   THEN UNCHANGED <<attachment, isLoading, isDrawing, currentTool,
                                    color, width, currentPath, props>>
                   ELSE Unmount
    /\ last' = Ev("delete", [value |-> ToString(id)])
    /\ gesture' = None
    /\ UNCHANGED <<readOnly, capturedImage, request, pointers, now, nView>>

\* A scheduled render of App and Whiteboard: the handlers are created anew.
Render ==
    /\ props # RenderOf(notes, activeNoteId, isDrawing, currentPath, currentTool,
                        color, width)
    /\ props' = RenderOf(notes, activeNoteId, isDrawing, currentPath, currentTool,
                         color, width)
    /\ last' = Ev("render", [value |-> ""])
    /\ UNCHANGED <<host, pointers, notes, isDrawing, currentTool, currentPath, now,
                   gesture, nView>>

----------------------------------------------------------------------------
(* Specifications *)

\* A note as App restores it from localStorage: drawn on, panned and zoomed.
restoredNoteContent ==
    [messages |-> <<>>,
     paths |-> <<[id |-> "s1", tool |-> "pen", color |-> "#000000", width |-> 2,
                 points |-> <<[x |-> Num(0), y |-> Num(0)], [x |-> Num(5), y |-> Num(5)]>>],
               [id |-> "s2", tool |-> "rectangle", color |-> "#000000", width |-> 2,
                 points |-> <<[x |-> Num(1), y |-> Num(1)], [x |-> Num(4), y |-> Num(3)]>>],
               [id |-> "s3", tool |-> "eraser", color |-> "#ffffff", width |-> eraserWidth,
                 points |-> <<[x |-> Num(5), y |-> Num(5)]>>]>>,
     viewport |-> [x |-> Num(100), y |-> Num(50), scale |-> Num(2)]]

\* note contents the engine starts from: a new note, or a restored one
InitContents == {initialNoteContent, restoredNoteContent}

InitWith(content, tool) ==
    /\ fileSystem = initialFileSystem
    /\ notes = [id \in NoteIds |->
                  IF id = INITIAL_NOTE_ID THEN content ELSE initialNoteContent]
    /\ activeNoteId = Some(INITIAL_NOTE_ID)
    /\ isDrawing = FALSE
    /\ currentTool = tool
    /\ color = "#000000"
    /\ width = 2
    /\ currentPath = None
    /\ readOnly = FALSE
    /\ capturedImage = None
    /\ attachment = None
    /\ isLoading = FALSE
    /\ request = None
    /\ props = RenderOf(notes, activeNoteId, isDrawing, currentPath, currentTool,
                        color, width)
    /\ now = 0
    /\ pressed = {}
    /\ captured = {}
    /\ last = Ev("init", [value |-> ""])
    /\ gesture = None
    /\ nView = 0

\* The same with the readOnly prop as the host passes it
InitConfigured(content, tool, ro) ==
    /\ fileSystem = initialFileSystem
    /\ notes = [id \in NoteIds |->
                  IF id = INITIAL_NOTE_ID THEN content ELSE initialNoteContent]
    /\ activeNoteId = Some(INITIAL_NOTE_ID)
    /\ isDrawing = FALSE
    /\ currentTool = tool
    /\ color = "#000000"
    /\ width = 2
    /\ currentPath = None
    /\ readOnly = ro
    /\ capturedImage = None
    /\ attachment = None
    /\ isLoading = FALSE
    /\ request = None
    /\ props = RenderOf(notes, activeNoteId, isDrawing, currentPath, currentTool,
                        color, width)
    /\ now = 0
    /\ pressed = {}
    /\ captured = {}
    /\ last = Ev("init", [value |-> ""])
    /\ gesture = None
    /\ nView = 0

\* Viewport: pan with the mouse and the three zoom entry points
InitView == \E content \in InitContents : InitWith(content, "pan")

NextView ==
    \/ \E e \in WheelEvents : handleWheel(e)
    \/ \E delta \in {zoomOutStep, zoomInStep} : manualZoom(delta)
    \/ \E value \in SliderValues : handleSliderZoom(value)
    \/ \E e \in DownEvents({"mouse"}) : startDrawing(e)
    \/ \E e \in MoveEvents({"mouse"}) : draw(e)
    \/ pointerUp("mouse")
    \/ Render

SpecView == InitView /\ [][NextView]_vars

\* The slider handler called with any value
NextSlider ==
    \/ NextView
    \/ \E value \in RawSliderValues \ SliderValues : handleSliderZoom(value)

SpecSlider == InitView /\ [][NextSlider]_vars

\* Drawing with one pointer: gestures, tools, undo and clear
DrawTools == {"pen", "rectangle"}

InitDraw == \E content \in InitContents : InitWith(content, "pen")

NextDraw ==
    \/ \E e \in DownEvents({"mouse"}) : startDrawing(e)
    \/ \E e \in MoveEvents({"mouse"}) : draw(e)
    \/ pointerUp("mouse")
    \/ pointerLeave("mouse")
    \/ \E tool \in DrawTools : selectTool(tool)
    \/ handleUndo
    \/ \E confirmed \in BOOLEAN : handleClear(confirmed)
    \/ Render

SpecDraw == InitDraw /\ [][NextDraw]_vars

\* one pointer-down and one pointer-move of each pointer
OneDown(ids) ==
    {e \in DownEvents(ids) : (e.pointerId = "mouse") = (e.clientX = 10)}

OneMove(ids) ==
    {e \in MoveEvents(ids) : e.movementX = (IF e.pointerId = "mouse" THEN 0 ELSE 10)}

\* Two pointers on the canvas: a touch and the mouse, with undo
InitPointers == InitWith(restoredNoteContent, "pen")

NextPointers ==
    \/ \E e \in OneDown(PointerIds) : startDrawingWithin(e, MaxStrokes + 1)
    \/ \E e \in OneMove(PointerIds) : draw(e)
    \/ \E id \in PointerIds : pointerUp(id)
    \/ \E id \in PointerIds : pointerLeave(id)
    \/ handleUndo
    \/ Render

SpecPointers == InitPointers /\ [][NextPointers]_vars

\* Every mode of the engine: read-only or not, drawing, panning, zooming
ModeTools == {"pen", "pan"}

ModeWheelEvents == [clientX : {10}, clientY : {50}, deltaY : {-100}]

InitModes ==
    \E tool \in ModeTools, ro \in BOOLEAN :
        InitConfigured(restoredNoteContent, tool, ro)

NextModes ==
    \/ \E e \in OneDown({"mouse"}) : startDrawing(e)
    \/ \E e \in OneMove({"mouse"}) : draw(e)
    \/ pointerUp("mouse")
    \/ \E e \in ModeWheelEvents : handleWheel(e)
    \/ manualZoom(zoomInStep)
    \/ handleSliderZoom("0.5")
    \/ Render

SpecModes == InitModes /\ [][NextModes]_vars

\* Stroke attributes: every drawing tool, colour and brush size
InitAttrs == \E tool \in Tools \ {"pan"} : InitWith(initialNoteContent, tool)

NextAttrs ==
    \/ \E e \in OneDown({"mouse"}) : startDrawing(e)
    \/ \E e \in OneMove({"mouse"}) : draw(e)
    \/ pointerUp("mouse")
    \/ selectTool("pen")
    \/ \E value \in Colors : setColor(value)
    \/ \E value \in Widths : setWidth(value)
    \/ Render

SpecAttrs == InitAttrs /\ [][NextAttrs]_vars

\* Notes: switching between the notes while drawing and undoing with the pen,
\* or while panning and zooming with the pan tool
NoteWheelEvents == [clientX : {10}, clientY : {50}, deltaY : {100}]

InitNotes == \E tool \in ModeTools : InitWith(restoredNoteContent, tool)

NextNotes ==
    \/ \E id \in NoteIds : selectNote(id)
    \/ \E e \in OneDown({"mouse"}) : startDrawing(e)
    \/ \E e \in OneMove({"mouse"}) : draw(e)
    \/ pointerUp("mouse")
    \/ pointerLeave("mouse")
    \/ handleUndo
    \/ handleClear(TRUE)
    \/ \E e \in NoteWheelEvents : currentTool = "pan" /\ handleWheel(e)
    \/ currentTool = "pan" /\ manualZoom(zoomInStep)
    \/ Render

SpecNotes == InitNotes /\ [][NextNotes]_vars

\* Grid: the viewport changes of SpecView and a slider value below the range
NextGrid ==
    \/ NextView
    \/ handleSliderZoom("-1")

SpecGrid == InitView /\ [][NextGrid]_vars

\* Chat: messages sent and answered while the notes are switched and strokes
\* undone (every event is discrete, so each handler runs in a fresh render)
InitChat == InitWith(restoredNoteContent, "pen")

NextChat ==
    \/ \E id \in NoteIds : selectNote(id)
    \/ \E input \in Inputs : handleSend(input)
    \/ \E aiResponseText \in Answers : handleSendResumed(aiResponseText)
    \/ handleUndo

SpecChat == InitChat /\ [][NextChat]_vars

\* The file tree: create, delete and select in the sidebar, with the chat
InitTree == InitWith(restoredNoteContent, "pen")

NodeTypes == {"folder", "note"}

\* the folders the sidebar offers as the parent of a new node
Folders == {id \in DOMAIN fileSystem : fileSystem[id].type = "folder"}

\* the notes the sidebar lists
NoteNodes == {id \in DOMAIN fileSystem : fileSystem[id].type = "note"}

\* An active note whose content entry lacks a field: Whiteboard reads
\* viewport.scale and paths.forEach of undefined, the render throws and React
\* takes the whole tree down, after which no handler is left to call.
crashed ==
    /\ mounted(notes, activeNoteId)
    /\ DOMAIN notes[activeNoteId[1]] # {"messages", "paths", "viewport"}

NextTree ==
    \/ \E type \in NodeTypes, parentId \in {None} \cup {Some(f) : f \in Folders} :
            ~crashed /\ handleCreateNode(type, parentId)
    \/ \E id \in DOMAIN fileSystem, confirmed \in BOOLEAN :
            ~crashed /\ handleDeleteNode(id, confirmed)
    \/ \E id \in NoteNodes : ~crashed /\ selectNote(id)
    \/ \E input \in Inputs :
            /\ ~crashed
            /\ mounted(notes, activeNoteId)
            /\ request = None
            /\ Len(notes[activeNoteId[1]].messages) < MaxTreeMessages
            /\ handleSend(input)
    \/ \E aiResponseText \in Answers : handleSendResumed(aiResponseText)

SpecTree == InitTree /\ [][NextTree]_vars

\* Captures: images of the canvas handed to App, the chat that attaches them
InitAttach == InitWith(restoredNoteContent, "pen")

\* the base64 payloads of the images the canvas can be captured as
Payloads == {"iVBOR" \o ToString(i) : i \in 1..MaxCaptures}

\* payload is held somewhere in App or Chat: pending, attached to the input
\* or to a message
held(payload) ==
    \/ capturedImage = Some(dataUrl("image/png", payload))
    \/ attachment # None /\ attachment[1].data = payload
    \/ \E id \in DOMAIN notes : \E i \in 1..Len(notes[id].messages) :
          /\ notes[id].messages[i].role = "user"
          /\ notes[id].messages[i].attachments # None
          /\ notes[id].messages[i].attachments[1].data = payload

\* what the user sends after a capture: the text the effect has put into the
\* input (setInput), or nothing but the image
AttachInputs == {"", "Please analyze this selected area and help me solve it."}

\* The render of a discrete event and the effects of that render are run
\* before the next event is dispatched: while an image is pending the effect
\* is the one step that can follow.  The canvas differs from one capture to
\* the next, so an image the chat still holds is not captured again.
NextAttach ==
    \/ \E payload \in Payloads :
            /\ capturedImage = None
            /\ ~held(payload)
            /\ handleWhiteboardCapture(dataUrl("image/png", payload))
    \/ pendingAttachmentEffect
    \/ \E input \in AttachInputs : capturedImage = None /\ handleSend(input)
    \/ capturedImage = None /\ handleSendResumed("4")
    \/ \E id \in NoteIds : capturedImage = None /\ selectNote(id)

SpecAttach == InitAttach /\ [][NextAttach]_vars

\* Tools: the tool is changed while a stroke of up to three points is drawn
InitTools ==
    \E content \in InitContents, tool \in DrawTools : InitWith(content, tool)

NextTools ==
    \/ \E e \in OneDown({"mouse"}) : startDrawing(e)
    \/ \E e \in OneMove({"mouse"}) : drawWithin(e, MaxPoints + 1)
    \/ pointerUp("mouse")
    \/ \E tool \in DrawTools : selectTool(tool)
    \/ Render

SpecTools == InitTools /\ [][NextTools]_vars

\* Painting: one stroke drawn over the restored log with a freehand tool or a
\* shape tool, and undone
PaintTools == {"pen", "eraser", "rectangle"}

InitPaint == \E tool \in PaintTools : InitWith(restoredNoteContent, tool)

NextPaint ==
    \/ \E e \in OneDown({"mouse"}) : startDrawing(e)
    \/ \E e \in OneMove({"mouse"}) : draw(e)
    \/ pointerUp("mouse")
    \/ handleUndo
    \/ Render

SpecPaint == InitPaint /\ [][NextPaint]_vars

\* Capture: one stroke drawn with the mouse, and requests to capture the canvas
NextCapture ==
    \/ \E e \in OneDown({"mouse"}) : startDrawing(e)
    \/ \E e \in OneMove({"mouse"}) : draw(e)
    \/ pointerUp("mouse")
    \/ handleUndo
    \/ capture
    \/ Render

SpecCapture == InitDraw /\ [][NextCapture]_vars

----------------------------------------------------------------------------
(* Claims *)

\* the note the engine works on
Host == activeNote(notes, activeNoteId)

InRange(scale) == RLe(Rat(1, 10), scale) /\ RLe(scale, Num(5))

\* the screen position of the wheel event handled last
LastAnchor == [x |-> Num(last.e.clientX), y |-> Num(last.e.clientY)]

CanvasCenter == [x |-> Rat(CanvasWidth, 2), y |-> Rat(CanvasHeight, 2)]

\* C1: starting from a scale in [0.1, 5], after any sequence of wheel events,
\* zoom button presses and slider changes interleaved with pans, the scale of
\* the viewport (the stored one and the rendered one) is in [0.1, 5], and a
\* wheel or button step that would pass a bound leaves the scale at the bound.
C1_ScaleClamped ==
    /\ InRange(Host.viewport.scale)
    /\ InRange(props.viewport.scale)
    /\ (last.op = "wheel" /\ last.e.deltaY < 0
            /\ RLe(Num(5), RMul(Rat(11, 10), last.pre.scale)))
        => Host.viewport.scale = Num(5)
    /\ (last.op = "wheel" /\ last.e.deltaY > 0
            /\ RLe(RMul(Rat(9, 10), last.pre.scale), Rat(1, 10)))
        => Host.viewport.scale = Rat(1, 10)
    /\ (last.op = "manualZoom" /\ last.e.value = "+"
            /\ RLe(Num(5), RAdd(last.pre.scale, Rat(1, 4))))
        => Host.viewport.scale = Num(5)
    /\ (last.op = "manualZoom" /\ last.e.value = "-"
            /\ RLe(RSub(last.pre.scale, Rat(1, 4)), Rat(1, 10)))
        => Host.viewport.scale = Rat(1, 10)

\* a press of the zoom-in button at a scale above 4.75 left the scale at 5
C1_Witness ==
    /\ last.op = "manualZoom"
    /\ last.e.value = "+"
    /\ RLt(Num(5), RAdd(last.pre.scale, Rat(1, 4)))
    /\ Host.viewport.scale = Num(5)

\* C2: for every value delivered to the slider handler, also one below 0.1 or
\* above 5, the scale stored afterwards is that value clamped to [0.1, 5].
C2_SliderClamped ==
    last.op = "slider"
        => Host.viewport.scale
             = MathMin(MathMax(Rat(1, 10), parseFloat(last.e.value)), Num(5))

\* C3: for a viewport v with scale in [0.1, 5] and a wheel event at screen
\* position a, the logical point under a in v is the logical point under a in
\* the viewport the wheel handler writes, also when the new scale was clamped.
C3_WheelKeepsAnchor ==
    (last.op = "wheel" /\ InRange(last.pre.scale))
        => screenToLogical(LastAnchor.x, LastAnchor.y, last.pre)
             = screenToLogical(LastAnchor.x, LastAnchor.y, Host.viewport)

\* viewport {x:100, y:50, scale:2}, one zoom-in step at (100, 50): the scale is
\* 2.2 and the logical point (0, 0) is still under (100, 50)
C3_Witness ==
    /\ last.op = "wheel"
    /\ last.e.deltaY < 0
    /\ last.pre = [x |-> Num(100), y |-> Num(50), scale |-> Num(2)]
    /\ LastAnchor = [x |-> Num(100), y |-> Num(50)]
    /\ Host.viewport.scale = Rat(11, 5)
    /\ screenToLogical(Num(100), Num(50), Host.viewport) = [x |-> Num(0), y |-> Num(0)]

\* C4: after a zoom button press or a slider change, the logical point under
\* the canvas centre (canvas.width / 2, canvas.height / 2) in the viewport the
\* handler ran in is the logical point under the centre in the viewport it wrote,
\* for every old viewport and every new scale.
C4_CenterKept ==
    last.op \in {"manualZoom", "slider"}
        => screenToLogical(CanvasCenter.x, CanvasCenter.y, last.pre)
             = screenToLogical(CanvasCenter.x, CanvasCenter.y, Host.viewport)

\* the slider moved a viewport of scale 2 to scale 0.5, and the offset moved too
C4_Witness ==
    /\ last.op = "slider"
    /\ last.e.value = "0.5"
    /\ last.pre.scale = Num(2)
    /\ Host.viewport.scale = Rat(1, 2)
    /\ Host.viewport.x # last.pre.x

EndedGesture == last.op = "up" /\ gesture # None /\ ~gesture[1].open

\* C6: with tool pen, a pointer-down at P0 followed by pointer-moves at P1..Pk
\* and a pointer-up appends to the log exactly one stroke, with tool pen and
\* the points <<P0, P1, ..., Pk>>.
C6_PenStrokeCommitted ==
    (EndedGesture /\ gesture[1].tool = "pen")
        => /\ Len(Host.paths) = Len(gesture[1].log) + 1
           /\ SubSeq(Host.paths, 1, Len(gesture[1].log)) = gesture[1].log
           /\ Host.paths[Len(Host.paths)].tool = "pen"
           /\ Host.paths[Len(Host.paths)].points = gesture[1].points

\* C7: with tool rectangle, a pointer-down at P0 followed by n >= 1 pointer-moves,
\* the last at P1, and a pointer-up commits a stroke with the points <<P0, P1>>.
C7_RectangleTwoPoints ==
    (EndedGesture /\ gesture[1].tool = "rectangle" /\ Len(gesture[1].points) >= 2)
        => /\ Len(Host.paths) = Len(gesture[1].log) + 1
           /\ Host.paths[Len(Host.paths)].points
                = <<gesture[1].points[1], gesture[1].points[Len(gesture[1].points)]>>

\* C8: in a sequence of pointer-moves with tool pan and the button held, however
\* the moves interleave with renders, every move that follows another move of
\* the sequence moves the viewport of the note by its own movement and keeps the
\* scale, so that x and y are the initial values plus the sums of the movements.
C8_PanCumulative ==
    [][\A e \in MoveEvents({"mouse"}) :
          (/\ draw(e)
           /\ props.currentTool = "pan" /\ buttons(e) = 1 /\ ~props.isDrawing
           /\ last.op \in {"move", "render"})
            => activeNote(notes', activeNoteId').viewport
                 = [x |-> RAdd(Host.viewport.x, Num(e.movementX)),
                    y |-> RAdd(Host.viewport.y, Num(e.movementY)),
                    scale |-> Host.viewport.scale]]_vars

C11_StopCommits ==
    [][\A id \in PointerIds :
          (pointerUp(id) \/ pointerLeave(id))
            => IF isDrawing
               THEN /\ currentPath # None
                        => activeNote(notes', activeNoteId').paths
                             = Append(Host.paths, currentPath[1])
                    /\ currentPath' = None
                    /\ isDrawing' = FALSE
               ELSE UNCHANGED <<notes, isDrawing, currentPath>>]_vars

\* C12: while the engine is read-only there is no in-progress stroke, the
\* machine is Idle and no event appends to or otherwise changes the log, with
\* any tool; a pan move, a wheel event, a zoom button and the slider still
\* write the viewport, moved or zoomed from the rendered one.
C12_ReadOnly ==
    /\ [](readOnly => (~isDrawing /\ currentPath = None))
    /\ [][readOnly =>
            LET new == activeNote(notes', activeNoteId')
                old == props.viewport
            IN  /\ new.paths = Host.paths
                /\ \A e \in OneMove({"mouse"}) :
                     (draw(e) /\ props.currentTool = "pan" /\ buttons(e) = 1)
                       => new.viewport = [x |-> RAdd(old.x, Num(e.movementX)),
                                          y |-> RAdd(old.y, Num(e.movementY)),
                                          scale |-> old.scale]
                /\ \A e \in ModeWheelEvents :
                     handleWheel(e)
                       => new.viewport.scale
                            = MathMin(Num(5), RMul(Rat(11, 10), old.scale))
                /\ manualZoom(zoomInStep)
                     => new.viewport.scale = MathMin(Num(5), RAdd(old.scale, Rat(1, 4)))
                /\ handleSliderZoom("0.5") => new.viewport.scale = Rat(1, 2)]_vars

\* read-only, after a zoom or pan: a pointer-down with the pen started nothing
C12_Witness ==
    /\ readOnly
    /\ last.op = "down"
    /\ props.currentTool = "pen"
    /\ "mouse" \in pressed
    /\ ~isDrawing /\ currentPath = None
    /\ Host.viewport # restoredNoteContent.viewport

\* C13: while the stroke begun by a pointer-down of one pointer is in progress,
\* a pointer-down, pointer-move, pointer-up or pointer-leave of another pointer
\* changes neither the in-progress stroke nor the drawing state nor the log.
C13_SecondPointer ==
    [][\A id \in PointerIds :
          (/\ gesture # None
           /\ gesture[1].open
           /\ gesture[1].pointerId # id
           /\ currentPath # None
           /\ \/ \E e \in OneDown({id}) : startDrawingWithin(e, MaxStrokes + 1)
              \/ \E e \in OneMove({id}) : draw(e)
              \/ pointerUp(id)
              \/ pointerLeave(id))
            => UNCHANGED <<currentPath, isDrawing, notes>>]_vars

\* C14: in every step the log of the note stays the same, gains one stroke at
\* its end, loses exactly its last stroke, or is emptied by a confirmed clear;
\* the strokes that remain are the same strokes at the same positions.
C14_LogSteps ==
    [][LET old == Host.paths
           new == activeNote(notes', activeNoteId').paths
       IN  \/ new = old
           \/ Len(new) = Len(old) + 1 /\ SubSeq(new, 1, Len(old)) = old
           \/ Len(old) >= 1 /\ new = SubSeq(old, 1, Len(old) - 1)
           \/ handleClear(TRUE) /\ new = <<>>]_vars

\* C15: in every reachable state there is at most one in-progress stroke, it
\* is not an element of the log, and the drawing flag is set if and only if an
\* in-progress stroke exists, in the state and in every render of it.
C15_OneInProgress ==
    /\ Len(currentPath) <= 1
    /\ isDrawing <=> currentPath # None
    /\ props.isDrawing <=> props.currentPath # None
    /\ currentPath # None
         => \A i \in 1 .. Len(Host.paths) :
               /\ Host.paths[i] # currentPath[1]
               /\ Host.paths[i].id # currentPath[1].id

\* a second stroke is in progress after the first was committed
C15_Witness ==
    /\ last.op = "down"
    /\ isDrawing
    /\ currentPath # None
    /\ Len(Host.paths) = Len(restoredNoteContent.paths) + 1
    /\ Host.paths[Len(Host.paths)].id = "0"

\* C16: an undo issued while a stroke is in progress leaves the in-progress
\* stroke (points, tool, color, width), the drawing state, the tool and the
\* viewport as they are, and the pointer-up that follows appends the stroke
\* after the log the undo left.
C16_UndoDuringStroke ==
    [][LET new == activeNote(notes', activeNoteId')
       IN  /\ (handleUndo /\ isDrawing /\ currentPath # None)
                => /\ currentPath' = currentPath
                   /\ isDrawing' = TRUE
                   /\ props'.currentPath = props.currentPath
                   /\ props'.isDrawing = props.isDrawing
                   /\ currentTool' = currentTool
                   /\ new.viewport = Host.viewport
           /\ (pointerUp("mouse") /\ last.op = "undo" /\ isDrawing /\ currentPath # None)
                => /\ Len(new.paths) = Len(Host.paths) + 1
                   /\ SubSeq(new.paths, 1, Len(Host.paths)) = Host.paths
                   /\ LET stroke == new.paths[Len(new.paths)]
                      IN  /\ stroke.id = currentPath[1].id
                          /\ stroke.tool = currentPath[1].tool
                          /\ stroke.color = currentPath[1].color
                          /\ stroke.width = currentPath[1].width]_vars

\* the restored log of three strokes lost its last one while a stroke was in
\* progress, and the stroke is still in progress
C16_Witness ==
    /\ last.op = "undo"
    /\ isDrawing
    /\ currentPath # None
    /\ props.currentPath # None
    /\ Host.paths = SubSeq(restoredNoteContent.paths, 1, 2)

\* C17: a clear empties the log when the user confirms and only then: when the
\* confirmation is declined the log, the viewport and the in-progress stroke
\* are unchanged; a confirmed clear leaves the viewport and the in-progress
\* stroke as they are.
C17_ClearConfirmed ==
    [][LET new == activeNote(notes', activeNoteId')
       IN  /\ handleClear(FALSE)
                => /\ new = Host
                   /\ UNCHANGED <<notes, currentPath, isDrawing, props>>
           /\ handleClear(TRUE)
                => /\ new.paths = <<>>
                   /\ new.viewport = Host.viewport
                   /\ UNCHANGED <<currentPath, isDrawing>>]_vars

\* the confirmation was declined while a stroke was in progress over the
\* restored log: the three strokes and the in-progress stroke are still there
C17_Witness ==
    /\ last.op = "clear"
    /\ last.e.value = "cancel"
    /\ isDrawing
    /\ currentPath # None
    /\ Host = restoredNoteContent

\* C18: every stroke of the log whose tool is rectangle, circle or line holds
\* exactly two points, whatever gesture committed it, also a pointer-down
\* followed by a pointer-up with no pointer-move in between.
C18_ShapeTwoPoints ==
    \A i \in 1 .. Len(Host.paths) :
        Host.paths[i].tool \in {"rectangle", "circle", "line"}
            => Len(Host.paths[i].points) = 2

\* C19: a wheel event, in whatever state it is handled (Idle or Drawing,
\* panning, read-only or not), changes nothing but the viewport of the note:
\* the log, the in-progress stroke, the drawing state, the tool and the
\* pointers are the same before and after it.
C19_WheelFrame ==
    [][\A e \in ModeWheelEvents :
          handleWheel(e)
            => /\ activeNote(notes', activeNoteId').paths = Host.paths
               /\ \A id \in NoteIds :
                     id # activeNoteId[1] => notes'[id] = notes[id]
               /\ UNCHANGED <<currentPath, isDrawing, currentTool, pressed,
                              captured, readOnly, activeNoteId>>]_vars

\* a wheel event zoomed the restored note from 2 to 2.2 while a stroke was in
\* progress: the stroke and the three strokes of the log are still there
C19_Witness ==
    /\ last.op = "wheel"
    /\ isDrawing
    /\ currentPath # None
    /\ Host.paths = restoredNoteContent.paths
    /\ Host.viewport.scale = Rat(11, 5)

\* the attributes of a stroke that the gesture does not change
Attributes(stroke) ==
    [tool |-> stroke.tool, color |-> stroke.color, width |-> stroke.width]

\* C20: the stroke created at pointer-down has exactly one point and the active
\* tool as its tag, width 20 and color #ffffff for eraser, width 15 and the
\* chosen color followed by the alpha 50 for highlighter, the configured width
\* and the chosen color for pen, rectangle, circle and line; tool, color and
\* width of the stroke are the same in every later state of the stroke and in
\* the stroke the log receives.
C20_StrokeAttributes ==
    /\ [](last.op = "down" /\ currentPath # None
            => LET stroke == currentPath[1]
               IN  /\ Len(stroke.points) = 1
                   /\ stroke.tool = currentTool
                   /\ stroke.tool = "eraser"
                        => stroke.width = 20 /\ stroke.color = "#ffffff"
                   /\ stroke.tool = "highlighter"
                        => stroke.width = 15 /\ stroke.color = color \o "50"
                   /\ stroke.tool \in {"pen", "rectangle", "circle", "line"}
                        => stroke.width = width /\ stroke.color = color)
    /\ [][currentPath # None
            => LET old == Host.paths
                   new == activeNote(notes', activeNoteId').paths
               IN  /\ (currentPath' # None /\ currentPath'[1].id = currentPath[1].id)
                        => Attributes(currentPath'[1]) = Attributes(currentPath[1])
                   /\ Len(new) > Len(old)
                        => /\ new[Len(new)].id = currentPath[1].id
                           /\ Attributes(new[Len(new)]) = Attributes(currentPath[1])]_vars

\* a highlighter stroke seeded after the color and the brush size were changed
C20_Witness ==
    /\ last.op = "down"
    /\ currentPath # None
    /\ currentPath[1].tool = "highlighter"
    /\ currentPath[1].color = "#ff000050"
    /\ currentPath[1].width = 15
    /\ width = 5

\* C21: a capture invocation makes the engine call the host's onCapture
\* callback, which leaves the data URI of the canvas in App's capturedImage.
C21_CaptureCallsBack ==
    [][last'.op = "capture" => capturedImage' # None /\ capturedImage' # capturedImage]_vars

\* the operations of the engine: commit, undo, clear, pan and zoom
EngineOps ==
    {"down", "move", "up", "leave", "undo", "clear", "wheel", "manualZoom", "slider"}

\* C22: the handlers of the engine always belong to the active note; after a
\* note switch they read the log and the viewport of the note switched to; and
\* an engine operation leaves the content of every other note unchanged.
C22_ActiveNoteOnly ==
    /\ [](props.activeNoteId = activeNoteId)
    /\ [][last'.op = "select"
            => props'.paths = Host'.paths /\ props'.viewport = Host'.viewport]_vars
    /\ [][last'.op \in EngineOps
            => /\ activeNoteId' = activeNoteId
               /\ \A id \in NoteIds :
                     id # activeNoteId[1] => notes'[id] = notes[id]]_vars

\* an engine operation on the second note, after the first note was changed
\* and the second note was changed as well
C22_Witness ==
    /\ last.op \in EngineOps
    /\ activeNoteId = Some(2)
    /\ notes[1] # restoredNoteContent
    /\ notes[2] # initialNoteContent

\* logical points the round trip is tried on
RoundTripPoints ==
    {[x |-> Num(i), y |-> Num(j)] : i \in {-3, 0, 7}, j \in {0, 5}}
        \cup {[x |-> Rat(1, 3), y |-> Rat(-7, 2)]}

\* C23: under every viewport with scale in [0.1, 5], a logical point taken to
\* the screen by the transform of the repaint and back by the conversion of
\* the pointer events is the point itself.
C23_RoundTrip ==
    InRange(Host.viewport.scale)
        => \A point \in RoundTripPoints :
              LET s == logicalToScreen(point, Host.viewport)
              IN  screenToLogical(s.x, s.y, Host.viewport) = point

\* a viewport that is panned and zoomed, under which the points move
C23_Witness ==
    /\ InRange(Host.viewport.scale)
    /\ Host.viewport.scale \notin {Num(1), Num(2)}
    /\ Host.viewport.x # Num(0)
    /\ nView > 0
    /\ \A point \in RoundTripPoints : logicalToScreen(point, Host.viewport) # point

\* the strokes of a render in the order the spec paints them
PaintOrder(paths, path) == paths \o (IF path = None THEN <<>> ELSE <<path[1]>>)

\* C24: the repaint of every render paints the committed strokes in log order
\* and then the stroke in progress, if there is one.
C24_PaintOrder ==
    LET painted == repaint(props.paths, props.currentPath).painted
        order == PaintOrder(props.paths, props.currentPath)
    IN  /\ Len(painted) = Len(order)
        /\ \A i \in 1 .. Len(order) : painted[i].id = order[i].id

\* a render with the three restored strokes and a stroke in progress
C24_Witness ==
    /\ Len(props.paths) = 3
    /\ props.currentPath # None
    /\ Len(repaint(props.paths, props.currentPath).painted) = 4

\* the context after the first k strokes of a render have been painted
PaintedUpTo(k) ==
    LET order == PaintOrder(props.paths, props.currentPath)
    IN  forEachDrawPath([i \in 1 .. k |-> Some(order[i])], 1, freshContext)

\* C25: in the repaint of every render only eraser strokes are painted in the
\* destructive mode, and after each stroke the mode is source-over again.
C25_CompositeMode ==
    LET order == PaintOrder(props.paths, props.currentPath)
        painted == repaint(props.paths, props.currentPath).painted
    IN  /\ \A i \in 1 .. Len(painted) :
              painted[i].mode =
                  IF painted[i].tool = "eraser" THEN "destination-out"
                  ELSE "source-over"
        /\ \A k \in 0 .. Len(order) :
              PaintedUpTo(k).globalCompositeOperation = "source-over"

\* a render in which a rectangle is painted right after an eraser stroke
C25_Witness ==
    LET painted == repaint(props.paths, props.currentPath).painted
    IN  \E i \in 1 .. (Len(painted) - 1) :
            /\ painted[i].tool = "eraser"
            /\ painted[i].mode = "destination-out"
            /\ painted[i + 1].tool = "rectangle"

\* C26: a pointer-move handled while a stroke is in progress extends the stroke
\* as the tool it was started with demands, whatever tool is selected by then:
\* a pen, eraser or highlighter stroke gains the point, a rectangle, circle or
\* line stroke becomes its anchor and the point.
C26_ToolFixedAtStart ==
    [][(/\ last'.op = "move"
        /\ props.isDrawing
        /\ props.currentPath # None
        /\ currentPath # None)
          => /\ currentPath' # None
             /\ currentPath'[1].points =
                   IF currentPath[1].tool \in FreehandTools
                   THEN Append(currentPath[1].points, getCanvasPoint(last'.e))
                   ELSE <<currentPath[1].points[1], getCanvasPoint(last'.e)>>]_vars

\* C27: the pointer-up or pointer-leave that ends a stroke appends nothing to
\* the log of a note other than the one that was active at its pointer-down.
C27_CommitToStartNote ==
    [][(/\ last'.op \in {"up", "leave"}
        /\ gesture # None
        /\ gesture[1].open)
          => \A id \in NoteIds :
                id # gesture[1].note => notes'[id].paths = notes[id].paths]_vars

\* how many entries of a log carry the id
CountOf(paths, id) == Cardinality({i \in 1 .. Len(paths) : paths[i].id = id})

\* C28: no log holds two entries of one stroke, and once the pointer-up or
\* pointer-leave of the pointer that drew a stroke has been handled the stroke
\* is in the log of its note exactly once, whether a pointer-leave of the
\* canvas came before it or after it, rendered or not.
C28_CommittedOnce ==
    /\ \A n \in NoteIds :
          \A i, j \in 1 .. Len(notes[n].paths) :
             i # j => notes[n].paths[i].id # notes[n].paths[j].id
    /\ (gesture # None /\ ~gesture[1].open /\ last.op \in {"up", "leave"})
          => CountOf(notes[gesture[1].note].paths, gesture[1].id) = 1

\* a stroke that a pointer-leave committed and, no render having come in
\* between, the pointer-up committed again: it is in the log once
C28_Witness ==
    /\ last.op = "up"
    /\ gesture # None
    /\ ~gesture[1].open
    /\ gesture[1].committedBy = {"leave", "up"}
    /\ CountOf(Host.paths, gesture[1].id) = 1

C30_ReplyToSendingNote ==
    [][last'.op = "reply"
         => LET sent == request[1].activeNoteId[1]
                before == notes[sent].messages
                after == notes'[sent].messages
            IN  /\ before = request[1].updatedMessages
                /\ before[Len(before)].role = "user"
                /\ Len(after) = Len(before) + 1
                /\ SubSeq(after, 1, Len(before)) = before
                /\ after[Len(after)].role = "model"
                /\ after[Len(after)].text = last'.e.value
                /\ \A id \in NoteIds :
                      /\ id # sent => notes'[id] = notes[id]
                      /\ notes'[id].paths = notes[id].paths
                      /\ notes'[id].viewport = notes[id].viewport]_vars

\* the reply to a message sent in the first note arrived while the second
\* note was active
C30_Witness ==
    /\ last.op = "reply"
    /\ activeNoteId = Some(2)
    /\ Len(notes[1].messages) = 2
    /\ notes[1].messages[2].role = "model"
    /\ notes[1].messages[2].text = last.e.value
    /\ notes[2].messages = initialNoteContent.messages

----------------------------------------------------------------------------
\* C31: after any sequence of create, delete and select operations the active
\* note id is null or the id of a note that is in the file tree and has a
\* content entry; it does not stay on a note removed with an ancestor folder.
C31_ActiveNoteExists ==
    \/ activeNoteId = None
    \/ /\ activeNoteId[1] \in NoteNodes
       /\ activeNoteId[1] \in DOMAIN notes

----------------------------------------------------------------------------
\* C32: in every reachable state each key of the note contents is the id of a
\* note of the file tree and each entry holds messages, paths and a viewport;
\* no callback that comes after a delete (a chat reply, a stroke commit, a
\* viewport update) makes a content entry for a deleted note.
C32_ContentOfTreeNotes ==
    \A id \in DOMAIN notes :
        /\ id \in NoteNodes
        /\ DOMAIN notes[id] = {"messages", "paths", "viewport"}

----------------------------------------------------------------------------
\* the messages and the input of the chat that carry payload as an attachment
carriers(payload) ==
    UNION {{<<id, i>> : i \in {k \in 1..Len(notes[id].messages) :
                                 /\ notes[id].messages[k].role = "user"
                                 /\ notes[id].messages[k].attachments # None
                                 /\ notes[id].messages[k].attachments[1].data = payload}} :
           id \in DOMAIN notes}
    \cup (IF attachment # None /\ attachment[1].data = payload THEN {<<0, 0>>} ELSE {})

\* C33: every captured image handed to the host is consumed by the chat exactly
\* once: whenever the pending attachment is non-null, the step that follows
\* sets the chat's attachment to its base64 payload with MIME type image/png
\* and resets the pending attachment to null, and no capture is attached to a
\* second message (or to a message and the input at once).
C33_CaptureConsumedOnce ==
    /\ [][capturedImage # None
            => /\ attachment' # None
               /\ attachment'[1].mimeType = "image/png"
               /\ dataUrl("image/png", attachment'[1].data) = capturedImage[1]
               /\ capturedImage' = None]_vars
    /\ [](\A payload \in Payloads : Cardinality(carriers(payload)) <= 1)

\* a captured image went out with one message and the message sent after the
\* reply carries none
C33_Witness ==
    /\ last.op = "send"
    /\ capturedImage = None
    /\ attachment = None
    /\ \E id \in DOMAIN notes :
          /\ Len(notes[id].messages) = 3
          /\ notes[id].messages[1].attachments =
                 Some([mimeType |-> "image/png", data |-> "iVBOR1"])
          /\ notes[id].messages[3].role = "user"
          /\ notes[id].messages[3].attachments = None

====
